---- MODULE Spec2Model ----
(***************************************************************************)
(* State-machine model of the maze engine of the 3D maze game:             *)
(* Maze::Generate, Maze::Draw, Maze::IsWall and Maze::FindStartPosition    *)
(* (src/src/Maze.cpp) together with the randomized Kruskal generator they  *)
(* call (maze::kruskal, header kruksal/kruksal.h, whose implementation is  *)
(* not part of the sources at hand and is modelled after sections 4.1 and  *)
(* 4.2 of the specification), and of the two executables that play in the  *)
(* maze, the host and the client, with the TCP connection over which the   *)
(* host unlocks the client (Game::Init, Game::ProcessInput,                *)
(* Game::ProcessMouseMovement, Game::Update, Game::CheckPortalProximity).  *)
(*                                                                         *)
(* The state holds one Maze object (Spec, SpecRegen, SpecGenerate,         *)
(* SpecForest, SpecGame, SpecInput, SpecHost) or two of them (SpecTwin).   *)
(* Several objects are driven by the same calls and the                    *)
(* same shuffle decisions; they differ only in the indeterminate values    *)
(* the constructor leaves in width, height and endParams.                  *)
(*                                                                         *)
(* World coordinates (float in the source) are fixed-point numbers counted *)
(* in ticks of 1/Res world units.                                          *)
(***************************************************************************)
EXTENDS Integers, Sequences, FiniteSets, TLC

(* ---------------------------- bounds ----------------------------------- *)

\* Largest width / height a caller requests (4 is rounded up to 5).
MaxW == 4
MaxH == 4
\* How far below zero a requested width / height goes (-2 is rounded up
\* to -1).
MaxNeg == 2
\* Ticks per half world unit; world coordinates have resolution 1/Res.
HalfRes == 1
\* How many ticks beyond the centres of the cells just outside the largest
\* grid a queried coordinate may lie.
QueryMargin == 1
\* Largest width / height requested when Generate is called repeatedly on
\* one Maze (2 is rounded up to 3).
MaxRegen == 2
\* The width and height the game asks for (maze_width, maze_heigth: 15 in
\* the source; 2 is rounded up to 3).
GameMazeSize == 2
\* The distance in ticks a player moves along an axis in one frame
\* (MovementSpeed * dt).
MaxMove == 2

\* How many steps the camera turns away from the direction it starts in.
MaxTurn == 1

Res == 2 * HalfRes
ReqW == (-MaxNeg)..MaxW
ReqH == (-MaxNeg)..MaxH
\* Values an uninitialised int member may hold.
Indeterminate == {-1, 2}

(* ------------------------ program constants ---------------------------- *)

Wall == 0
Path == 1
cellSize == 1

(* ----------------------------- state ----------------------------------- *)

VARIABLES
    pc,         \* where the caller of the Maze objects is
    width,      \* width[m]     : Maze::width
    height,     \* height[m]    : Maze::height
    grid,       \* grid[m][z][x]: Maze::grid, rows z, columns x, 0-based
    endParams,  \* endParams[m] : Maze::endParams, [x, y] = (col, row)
    gen,        \* gen[m]       : the local maze::kruskal generator, or NoGen
    requested,  \* the arguments w, h of Generate as passed, until the
                \* generator is constructed
    ret,        \* the last call that returned and what each object returned
    before,     \* width, height, grid and endParams as they were when
                \* Generate was entered, until the generator is constructed
                \* or the catch block is left
    game,       \* game[p]: the Game object of executable p (host, client)
    net         \* the TCP connection between the two executables

mazeVars == <<pc, width, height, grid, endParams, gen, requested, ret, before>>
vars == <<pc, width, height, grid, endParams, gen, requested, ret, before,
          game, net>>

\* The Maze objects of the state.
Mazes == DOMAIN width

NoGen == [live |-> FALSE]
EmptyGrid == << >>
NoCall == [op |-> "none"]
\* What a function returning void hands to its caller.
Void == "void"

(* --------------------- C++ integer arithmetic -------------------------- *)

\* a % b of C++ for b > 0: the remainder has the sign of the dividend.
CRem(a, b) == IF a >= 0 THEN a % b ELSE -((-a) % b)

\* (int) of a float holding n ticks: truncation toward zero.
FloatToInt(n) == IF n >= 0 THEN n \div Res ELSE -((-n) \div Res)

(* ---------------- disjoint sets over the room cells -------------------- *)

\* Rooms sit at even (col, row); room (col, row) has index
\* (row / 2) * roomCols + col / 2.
RoomCols(w) == (w + 1) \div 2
RoomRows(h) == (h + 1) \div 2
NumRooms(w, h) == RoomCols(w) * RoomRows(h)
RoomIndex(w, col, row) == (row \div 2) * RoomCols(w) + (col \div 2)

MakeSet(n) == [i \in 0..(n - 1) |-> i]

RECURSIVE Root(_, _)
Root(parent, x) == IF parent[x] = x THEN x ELSE Root(parent, parent[x])

RECURSIVE PathToRoot(_, _)
PathToRoot(parent, x) ==
    IF parent[x] = x THEN {x} ELSE {x} \cup PathToRoot(parent, parent[x])

\* Find(x) with path compression: the representative of x, and the parent
\* array in which every node on the way from x to it points to it.
Find(parent, x) ==
    LET r == Root(parent, x)
        onPath == PathToRoot(parent, x)
    IN  [root |-> r,
         parent |-> [i \in DOMAIN parent |-> IF i \in onPath THEN r ELSE parent[i]]]

\* Union that reports a merge even when x and y already share a set.
UnionAlwaysMerged(parent, x, y) ==
    LET fx == Find(parent, x)
        fy == Find(fx.parent, y)
        lo == IF fx.root < fy.root THEN fx.root ELSE fy.root
    IN  [merged |-> TRUE,
         parent |-> [i \in DOMAIN parent |->
                       IF Root(fy.parent, i) \in {fx.root, fy.root}
                       THEN lo ELSE fy.parent[i]]]

\* Union(x, y): merged is FALSE when x and y already share a representative.
\* A merge moves every member of the two sets under the smaller of the two
\* representatives.
Union(parent, x, y) ==
    LET fx == Find(parent, x)
        fy == Find(fx.parent, y)
        lo == IF fx.root < fy.root THEN fx.root ELSE fy.root
    IN  IF fx.root = fy.root
        THEN [merged |-> FALSE, parent |-> fy.parent]
        ELSE [merged |-> TRUE,
              parent |-> [i \in DOMAIN parent |->
                            IF Root(fy.parent, i) \in {fx.root, fy.root}
                            THEN lo ELSE fy.parent[i]]]

\* Union that links the two representatives without asking whether they
\* differ: uniting two rooms of one set still reports a merge.
UnionLinkedUnchecked(parent, x, y) ==
    LET fx == Find(parent, x)
        fy == Find(fx.parent, y)
        lo == IF fx.root < fy.root THEN fx.root ELSE fy.root
        hi == IF fx.root < fy.root THEN fy.root ELSE fx.root
    IN  [merged |-> TRUE, parent |-> [fy.parent EXCEPT ![hi] = lo]]

\* Union(x, y) on the forest itself: both Find calls compress their paths,
\* and a merge hangs the larger of the two representatives under the
\* smaller; the other members keep their parents, so trees grow deep.
UnionLinked(parent, x, y) ==
    LET fx == Find(parent, x)
        fy == Find(fx.parent, y)
        lo == IF fx.root < fy.root THEN fx.root ELSE fy.root
        hi == IF fx.root < fy.root THEN fy.root ELSE fx.root
    IN  IF fx.root = fy.root
        THEN [merged |-> FALSE, parent |-> fy.parent]
        ELSE [merged |-> TRUE, parent |-> [fy.parent EXCEPT ![hi] = lo]]

(* --------------------- the Kruskal generator --------------------------- *)

IsRoom(col, row) == col % 2 = 0 /\ row % 2 = 0

\* Candidate walls: the cells with one even and one odd coordinate.
CandidateWalls(w, h) ==
    {c \in (0..(w - 1)) \X (0..(h - 1)) : (c[1] + c[2]) % 2 = 1}

\* The two rooms a candidate wall (col, row) lies between.
RoomA(c) == IF c[1] % 2 = 1 THEN <<c[1] - 1, c[2]>> ELSE <<c[1], c[2] - 1>>
RoomB(c) == IF c[1] % 2 = 1 THEN <<c[1] + 1, c[2]>> ELSE <<c[1], c[2] + 1>>

\* kruskal(vertical, horizontal): vertical rows of horizontal cells, all
\* Wall except the rooms; one singleton set per room; the candidate list.
NewGenerator(vertical, horizontal) ==
    [live       |-> TRUE,
     vertical   |-> vertical,
     horizontal |-> horizontal,
     maze       |-> [z \in 0..(vertical - 1) |->
                       [x \in 0..(horizontal - 1) |->
                          IF IsRoom(x, z) THEN Path ELSE Wall]],
     parent     |-> MakeSet(NumRooms(horizontal, vertical)),
     walls      |-> CandidateWalls(horizontal, vertical),
     unions     |-> 0]

\* The constructor rejects sizes that are not positive.
GeneratorThrows(vertical, horizontal) == vertical <= 0 \/ horizontal <= 0

\* An iteration that carves the candidate whether or not the union merged.
CarveAlways(g, c) ==
    LET a == RoomIndex(g.horizontal, RoomA(c)[1], RoomA(c)[2])
        b == RoomIndex(g.horizontal, RoomB(c)[1], RoomB(c)[2])
        u == Union(g.parent, a, b)
    IN  [g EXCEPT !.parent = u.parent,
                  !.walls  = g.walls \ {c},
                  !.unions = IF u.merged THEN g.unions + 1 ELSE g.unions,
                  !.maze   = [g.maze EXCEPT ![c[2]][c[1]] = Path]]

\* One iteration of generate(): candidate c is taken off the shuffled list,
\* its two rooms are united, and c is carved when the union merged them.
Carve(g, c) ==
    LET a == RoomIndex(g.horizontal, RoomA(c)[1], RoomA(c)[2])
        b == RoomIndex(g.horizontal, RoomB(c)[1], RoomB(c)[2])
        u == Union(g.parent, a, b)
    IN  [g EXCEPT !.parent = u.parent,
                  !.walls  = g.walls \ {c},
                  !.unions = IF u.merged THEN g.unions + 1 ELSE g.unions,
                  !.maze   = IF u.merged
                             THEN [g.maze EXCEPT ![c[2]][c[1]] = Path]
                             ELSE g.maze]

\* One iteration of generate() on the linked forest.
CarveLinked(g, c) ==
    LET a == RoomIndex(g.horizontal, RoomA(c)[1], RoomA(c)[2])
        b == RoomIndex(g.horizontal, RoomB(c)[1], RoomB(c)[2])
        u == UnionLinked(g.parent, a, b)
    IN  [g EXCEPT !.parent = u.parent,
                  !.walls  = g.walls \ {c},
                  !.unions = IF u.merged THEN g.unions + 1 ELSE g.unions,
                  !.maze   = IF u.merged
                             THEN [g.maze EXCEPT ![c[2]][c[1]] = Path]
                             ELSE g.maze]

\* get_maze(): the generator's cells.
GetMaze(g) == g.maze

(* --------------------------- Maze::Generate ---------------------------- *)

\* grid[z][x] == v for an index inside the grid. No reachable state reads a
\* cell outside the grid (InRangeReads below).
InGrid(g, x, z) == z \in DOMAIN g /\ x \in DOMAIN g[z]
Holds(g, x, z, v) == InGrid(g, x, z) /\ g[z][x] = v

\* Rounding that tests w % 2 != 1: a negative odd number has remainder -1.
RoundOddNotOne(n) == IF CRem(n, 2) # 1 THEN n + 1 ELSE n

\* Maze.cpp 18-21: an even dimension is incremented.
RoundOdd(n) == IF CRem(n, 2) = 0 THEN n + 1 ELSE n

\* The generator constructed with (w, h).
MakeGeneratorSwapped(w, h) == NewGenerator(w, h)

\* Maze.cpp 29: the generator is constructed with (h, w).
MakeGenerator(w, h) == NewGenerator(h, w)

\* A size check that also rejects a dimension of 1.
MakeGeneratorThrowsAtOne(w, h) == GeneratorThrows(h - 1, w - 1)

\* Maze.cpp 27-51: the constructor call inside the try block throws.
MakeGeneratorThrows(w, h) == GeneratorThrows(h, w)

\* The grid taken from the generator before generate() has run.
ExtractGridUncarved(g) == GetMaze(NewGenerator(g.vertical, g.horizontal))

\* The grid taken with the two cell values exchanged.
ExtractGridInverted(g) ==
    [z \in DOMAIN GetMaze(g) |->
       [x \in DOMAIN GetMaze(g)[z] |-> 1 - GetMaze(g)[z][x]]]

\* Maze.cpp 35: this->grid = generator.get_maze().
ExtractGrid(g) == GetMaze(g)

\* Maze.cpp 38-46: the cells in the order the end scan visits them, highest
\* row first and, within a row, highest column first.
ScansBefore(x1, z1, x2, z2) == z1 > z2 \/ (z1 = z2 /\ x1 > x2)

\* The end scan with loop conditions z > 0 and x > 0: row 0 and column 0
\* are never visited.
FindEndSkipZero(g, w, h, old) ==
    LET hits == {c \in (1..(w - 1)) \X (1..(h - 1)) : Holds(g, c[1], c[2], 1)}
    IN  IF hits = {} THEN old
        ELSE LET c == CHOOSE c \in hits :
                        \A d \in hits \ {c} : ScansBefore(c[1], c[2], d[1], d[2])
             IN  [x |-> c[1], y |-> c[2]]

\* The end scan running forward: it stops at the first cell holding 1.
FindEndForward(g, w, h, old) ==
    LET hits == {c \in (0..(w - 1)) \X (0..(h - 1)) : Holds(g, c[1], c[2], 1)}
    IN  IF hits = {} THEN old
        ELSE LET c == CHOOSE c \in hits :
                        \A d \in hits \ {c} : ScansBefore(d[1], d[2], c[1], c[2])
             IN  [x |-> c[1], y |-> c[2]]

\* Maze.cpp 38-46: endParams after the scan; it is assigned only when a cell
\* holding 1 is found.
FindEnd(g, w, h, old) ==
    LET hits == {c \in (0..(w - 1)) \X (0..(h - 1)) : Holds(g, c[1], c[2], 1)}
    IN  IF hits = {} THEN old
        ELSE LET c == CHOOSE c \in hits :
                        \A d \in hits \ {c} : ScansBefore(c[1], c[2], d[1], d[2])
             IN  [x |-> c[1], y |-> c[2]]

\* The members a caller can read, as one value.
Fields == [width |-> width, height |-> height, grid |-> grid,
           endParams |-> endParams]

\* Maze.cpp 16-24: Generate is entered on a new Maze or on one Generate has
\* returned from before; the dimensions are rounded in place and stored; from then on the parameters
\* hold the rounded values.
GenerateEnter(w, h) ==
    /\ pc \in {"new", "ready", "failed"}
    /\ requested' = [w |-> w, h |-> h]
    /\ before' = Fields
    /\ width' = [m \in Mazes |-> RoundOdd(w)]
    /\ height' = [m \in Mazes |-> RoundOdd(h)]
    /\ pc' = "entered"
    /\ UNCHANGED <<grid, endParams, gen, ret, game, net>>

\* A construction whose candidate list holds every cell that is not a
\* room, the cells with two odd coordinates included.
GenerateConstructAllCells ==
    /\ pc = "entered"
    /\ requested' = NoCall
    /\ IF \E m \in Mazes : MakeGeneratorThrows(width[m], height[m])
       THEN /\ pc' = "caught"
            /\ gen' = gen
            /\ before' = before
       ELSE /\ pc' = "generating"
            /\ gen' = [m \in Mazes |->
                         [MakeGenerator(width[m], height[m]) EXCEPT
                            !.walls = {c \in (0..(width[m] - 1)) \X (0..(height[m] - 1)) :
                                          ~IsRoom(c[1], c[2])}]]
            /\ before' = NoCall
    /\ UNCHANGED <<width, height, grid, endParams, ret, game, net>>

\* Maze.cpp 27-29: the generator is constructed; when its constructor throws,
\* control is in the catch block.
GenerateConstruct ==
    /\ pc = "entered"
    /\ requested' = NoCall
    /\ IF \E m \in Mazes : MakeGeneratorThrows(width[m], height[m])
       THEN /\ pc' = "caught"
            /\ gen' = gen
            /\ before' = before
       ELSE /\ pc' = "generating"
            /\ gen' = [m \in Mazes |-> MakeGenerator(width[m], height[m])]
            /\ before' = NoCall
    /\ UNCHANGED <<width, height, grid, endParams, ret, game, net>>

\* An iteration that carves its candidate whatever Union returned.
GenerateStepCarveAlways(c) ==
    /\ pc = "generating"
    /\ \A m \in Mazes : c \in gen[m].walls
    /\ gen' = [m \in Mazes |-> CarveAlways(gen[m], c)]
    /\ UNCHANGED <<pc, width, height, grid, endParams, requested, ret, before, game, net>>

\* An iteration that leaves its candidate on the list.
GenerateStepKeepCandidate(c) ==
    /\ pc = "generating"
    /\ \A m \in Mazes : c \in gen[m].walls
    /\ gen' = [m \in Mazes |-> [Carve(gen[m], c) EXCEPT !.walls = gen[m].walls]]
    /\ UNCHANGED <<pc, width, height, grid, endParams, requested, ret, before, game, net>>

\* Maze.cpp 32: one iteration of generator.generate(); every object takes
\* the same candidate c next (the same shuffled order).
GenerateStep(c) ==
    /\ pc = "generating"
    /\ \A m \in Mazes : c \in gen[m].walls
    /\ gen' = [m \in Mazes |-> Carve(gen[m], c)]
    /\ UNCHANGED <<pc, width, height, grid, endParams, requested, ret, before, game, net>>

\* One iteration on the linked forest whose Union does not test the two
\* representatives.
GenerateStepLinkedUnchecked(c) ==
    /\ pc = "generating"
    /\ \A m \in Mazes : c \in gen[m].walls
    /\ gen' = [m \in Mazes |->
                 LET g == gen[m]
                     a == RoomIndex(g.horizontal, RoomA(c)[1], RoomA(c)[2])
                     b == RoomIndex(g.horizontal, RoomB(c)[1], RoomB(c)[2])
                     u == UnionLinkedUnchecked(g.parent, a, b)
                 IN  [g EXCEPT !.parent = u.parent,
                               !.walls  = g.walls \ {c},
                               !.unions = g.unions + 1,
                               !.maze   = [g.maze EXCEPT ![c[2]][c[1]] = Path]]]
    /\ UNCHANGED <<pc, width, height, grid, endParams, requested, ret, before, game, net>>

\* Maze.cpp 32: one iteration of generator.generate(), the disjoint sets
\* kept as a forest of linked trees.
GenerateStepLinked(c) ==
    /\ pc = "generating"
    /\ \A m \in Mazes : c \in gen[m].walls
    /\ gen' = [m \in Mazes |-> CarveLinked(gen[m], c)]
    /\ UNCHANGED <<pc, width, height, grid, endParams, requested, ret, before, game, net>>

\* Maze.cpp 32: a Find(x) call inside generate(), taken on its own: the
\* path from room x to its representative is compressed.
GenerateFind(x) ==
    /\ pc = "generating"
    /\ \A m \in Mazes : x \in DOMAIN gen[m].parent
    /\ gen' = [m \in Mazes |-> [gen[m] EXCEPT !.parent = Find(gen[m].parent, x).parent]]
    /\ UNCHANGED <<pc, width, height, grid, endParams, requested, ret, before, game, net>>

\* Maze.cpp 16, 52: Generate is declared void; whichever way it ends, this
\* is what its caller receives.
GenerateResult == [op |-> "Generate", val |-> [m \in Mazes |-> Void]]

\* Maze.cpp 35-52: the grid is copied out of the generator, the end cell is
\* searched, and Generate returns (the generator goes out of scope).
GenerateReturn ==
    /\ pc = "generating"
    /\ \A m \in Mazes : gen[m].walls = {}
    /\ grid' = [m \in Mazes |-> ExtractGrid(gen[m])]
    /\ endParams' = [m \in Mazes |->
                       FindEnd(ExtractGrid(gen[m]), width[m], height[m], endParams[m])]
    /\ gen' = [m \in Mazes |-> NoGen]
    /\ pc' = "ready"
    /\ ret' = GenerateResult
    /\ UNCHANGED <<width, height, requested, before, game, net>>

\* Maze.cpp 49-52: the catch block reports the error on std::cerr and
\* Generate returns.
GenerateCatch ==
    /\ pc = "caught"
    /\ pc' = "failed"
    /\ ret' = GenerateResult
    /\ before' = NoCall
    /\ UNCHANGED <<width, height, grid, endParams, gen, requested, game, net>>

(* --------------------------- Maze::IsWall ------------------------------ *)

\* Maze.cpp 108-109: (int)((world / cellSize) + 0.5f), world in ticks.
GridIndex(world) == FloatToInt((world \div cellSize) + HalfRes)

\* Maze.cpp 112-118.
IsWallAt(g, w, h, gridX, gridZ) ==
    IF gridX < 0 \/ gridX >= w \/ gridZ < 0 \/ gridZ >= h
    THEN TRUE
    ELSE Holds(g, gridX, gridZ, 0)

\* World coordinates a caller passes to IsWall.
QueryX == (-Res - QueryMargin)..(RoundOdd(MaxW) * Res + QueryMargin)
QueryZ == (-Res - QueryMargin)..(RoundOdd(MaxH) * Res + QueryMargin)

\* Game::Init queries the maze only after Generate has returned.
Queryable == pc \in {"ready", "failed"}

\* The caller is not inside a query: the last returned value was taken.
Idle == ret = NoCall

\* IsWall with `grid[gridZ][gridX] = 0` where the comparison is meant: the
\* cell is overwritten and the value returned is false.
IsWallAssigning(worldX, worldZ) ==
    LET gridX == GridIndex(worldX)
        gridZ == GridIndex(worldZ)
        outside(m) == gridX < 0 \/ gridX >= width[m] \/ gridZ < 0 \/ gridZ >= height[m]
    IN  /\ Queryable
        /\ grid' = [m \in Mazes |->
                       IF outside(m) THEN grid[m]
                       ELSE [grid[m] EXCEPT ![gridZ][gridX] = 0]]
        /\ ret' = [op |-> "IsWall", worldX |-> worldX, worldZ |-> worldZ,
                   gridX |-> gridX, gridZ |-> gridZ,
                   val |-> [m \in Mazes |-> outside(m)]]
        /\ UNCHANGED <<pc, width, height, endParams, gen, requested, before, game, net>>

\* Maze.cpp 105-119.
IsWall(worldX, worldZ) ==
    /\ Queryable
    /\ ret' = [op |-> "IsWall", worldX |-> worldX, worldZ |-> worldZ,
               gridX |-> GridIndex(worldX), gridZ |-> GridIndex(worldZ),
               val |-> [m \in Mazes |->
                          IsWallAt(grid[m], width[m], height[m],
                                   GridIndex(worldX), GridIndex(worldZ))]]
    /\ UNCHANGED <<pc, width, height, grid, endParams, gen, requested, before, game, net>>

(* ---------------------- Maze::FindStartPosition ------------------------ *)

\* A world position: x, y, z in ticks.
Vec3(x, y, z) == [x |-> x, y |-> y, z |-> z]

\* Maze.cpp 127-134: the forward scan visits lower rows first and, within a
\* row, lower columns first.
StartScansBefore(x1, z1, x2, z2) == z1 < z2 \/ (z1 = z2 /\ x1 < x2)

\* The start scan with the inner loop starting at x = 1.
StartPositionSkipCol0(g, w, h) ==
    LET hits == {c \in (1..(w - 1)) \X (0..(h - 1)) : Holds(g, c[1], c[2], 1)}
    IN  IF hits = {} THEN Vec3(0, HalfRes, 0)
        ELSE LET c == CHOOSE c \in hits :
                        \A d \in hits \ {c} :
                            StartScansBefore(c[1], c[2], d[1], d[2])
             IN  Vec3(c[1] * cellSize * Res, HalfRes, c[2] * cellSize * Res)

\* The start scan running backward, as the end scan does.
StartPositionLast(g, w, h) ==
    LET hits == {c \in (0..(w - 1)) \X (0..(h - 1)) : Holds(g, c[1], c[2], 1)}
    IN  IF hits = {} THEN Vec3(0, HalfRes, 0)
        ELSE LET c == CHOOSE c \in hits :
                        \A d \in hits \ {c} :
                            StartScansBefore(d[1], d[2], c[1], c[2])
             IN  Vec3(c[1] * cellSize * Res, HalfRes, c[2] * cellSize * Res)

\* Maze.cpp 125-137: the position of the first cell holding 1, or the
\* fallback position.
StartPosition(g, w, h) ==
    LET hits == {c \in (0..(w - 1)) \X (0..(h - 1)) : Holds(g, c[1], c[2], 1)}
    IN  IF hits = {} THEN Vec3(0, HalfRes, 0)
        ELSE LET c == CHOOSE c \in hits :
                        \A d \in hits \ {c} :
                            StartScansBefore(c[1], c[2], d[1], d[2])
             IN  Vec3(c[1] * cellSize * Res, HalfRes, c[2] * cellSize * Res)

FindStartPosition ==
    /\ Queryable
    /\ ret' = [op |-> "FindStartPosition",
               val |-> [m \in Mazes |-> StartPosition(grid[m], width[m], height[m])]]
    /\ UNCHANGED <<pc, width, height, grid, endParams, gen, requested, before, game, net>>

\* What Draw draws at each cell it visits.
DrawnCells(g, w, h, end) ==
    [z \in 0..(h - 1) |->
       [x \in 0..(w - 1) |->
          IF Holds(g, x, z, 0) THEN "wall"
          ELSE IF x = end.x /\ z = end.y THEN "end"
          ELSE "floor"]]

\* Maze.cpp 58-97: every cell of height rows of width cells is drawn as a
\* wall, as the end point or as floor.
Draw ==
    /\ Queryable
    /\ ret' = [op |-> "Draw",
               val |-> [m \in Mazes |->
                          DrawnCells(grid[m], width[m], height[m], endParams[m])]]
    /\ UNCHANGED <<pc, width, height, grid, endParams, gen, requested, before, game, net>>

\* Whether the last call was IsWall / FindStartPosition / Draw.
CalledIsWall == ret.op = "IsWall"
CalledFindStart == ret.op = "FindStartPosition"
CalledDraw == ret.op = "Draw"

\* The caller makes the call it made last once more, with the same
\* arguments.
QueryAgain ==
    \/ CalledIsWall /\ IsWall(ret.worldX, ret.worldZ)
    \/ CalledFindStart /\ FindStartPosition
    \/ CalledDraw /\ Draw

\* Maze.h 42-58: grid, width, height and endParams are public; a reader
\* (Game::DrawMinimap, Maze.cpp 1418-1426) takes them as they are, wherever
\* Generate is.
ReadFields ==
    /\ ret' = [op |-> "ReadFields", pc |-> pc, val |-> Fields]
    /\ UNCHANGED <<pc, width, height, grid, endParams, gen, requested, before, game, net>>

\* The caller takes the value a call returned and goes on.
TakeResult ==
    /\ ret # NoCall
    /\ ret' = NoCall
    /\ UNCHANGED <<pc, width, height, grid, endParams, gen, requested, before, game, net>>

\* Every cell the scans and IsWall read lies inside the grid.
InRangeReads ==
    \A m \in Mazes :
        /\ pc = "generating" =>
              /\ gen[m].vertical = height[m]
              /\ gen[m].horizontal = width[m]
              /\ DOMAIN gen[m].maze = 0..(height[m] - 1)
              /\ \A z \in DOMAIN gen[m].maze : DOMAIN gen[m].maze[z] = 0..(width[m] - 1)
        /\ Queryable =>
              \A x \in 0..(width[m] - 1), z \in 0..(height[m] - 1) :
                  InGrid(grid[m], x, z)

(* ------------------------------- Game ---------------------------------- *)

\* The two executables: main.cpp constructs its Game in HOST mode,
\* main_client.cpp in CLIENT mode.
Procs == {"host", "client"}
mode == [p \in Procs |-> IF p = "host" THEN "HOST" ELSE "CLIENT"]

\* main_client.cpp 102 stores the window in Game::windowPtr; main.cpp leaves
\* it null.
windowPtr == [p \in Procs |-> p = "client"]

\* The Maze both games play in: every Game generates its own maze; the
\* model gives both the layout of this one.
currentMaze == 1

\* A position on the horizontal plane, in ticks (the camera is kept at
\* y = 0.5, the portal lies at y = 0).
Pos(x, z) == [x |-> x, z |-> z]

\* "UNLOCK r g b", the tint written as one character.
UnlockMsg == <<"U", "N", "L", "O", "C", "K", " ", "t">>

\* message.find("UNLOCK") != npos
ContainsUnlock(bytes) ==
    \E i \in 1..(Len(bytes) - 5) :
        SubSeq(bytes, i, i + 5) = <<"U", "N", "L", "O", "C", "K">>

\* Game::Game (Maze.cpp 195-204).
NewGame(p) ==
    [phase              |-> "constructed",
     movementLocked     |-> mode[p] = "CLIENT",
     connectedToPortal  |-> FALSE,
     isPaused           |-> FALSE,
     showingIntroDialog |-> TRUE,
     Position           |-> Pos(0, 0),
     Yaw                |-> 0,
     portalPosition     |-> Pos(0, 0),
     at                 |-> "loop"]

\* No socket exists: nobody listens, nobody has connected, no byte is on
\* its way from the host to the client.
NoNet == [listening |-> FALSE, conn |-> "none", wire |-> << >>]

InitGame ==
    /\ game = [p \in Procs |-> NewGame(p)]
    /\ net = NoNet

\* The socket members: serverSocket >= 0 once the host has run Init,
\* clientSocket >= 0 once it has accepted, networkSocket >= 0 once the
\* client has run Init (whether or not connect succeeded).
HasClientSocket == net.conn = "accepted"
Connected == net.conn \in {"backlog", "accepted"}

\* Game::Init (Maze.cpp 256-289, 478-489, 781-783): the host listens, the
\* client connects (which fails when nobody listens); the camera is put at
\* the start position of the generated maze and the portal at its end cell.
GameInit(p) ==
    /\ game[p].phase = "constructed"
    /\ pc = "ready"
    /\ net' = IF mode[p] = "HOST"
              THEN [net EXCEPT !.listening = TRUE]
              ELSE [net EXCEPT !.conn = IF net.listening THEN "backlog" ELSE "refused"]
    /\ LET m == currentMaze
           startPos == StartPosition(grid[m], width[m], height[m])
       IN  game' = [game EXCEPT
                      ![p].phase = "running",
                      ![p].Position = Pos(startPos.x, startPos.z),
                      ![p].portalPosition =
                          Pos(endParams[m].x * cellSize * Res,
                              endParams[m].y * cellSize * Res)]
    /\ UNCHANGED mazeVars

\* The moves a frame's keys ask for along one axis.
Moves == {-MaxMove, 0, MaxMove}

\* n / d truncated toward zero, d > 0.
TruncDiv(n, d) == IF n >= 0 THEN n \div d ELSE -((-n) \div d)

\* Maze.cpp 108-109 for a coordinate given in hundredths of a tick.
GridIndex100(v) == TruncDiv((v \div cellSize) + 50 * Res, 100 * Res)

\* Maze.cpp 883-919: playerRadius 0.35f; the centre, the 4 cardinal points
\* and the 4 corners of the square around (x, z) are probed with IsWall.
playerRadius100 == 35
CheckCollision(x, z) ==
    LET m == currentMaze
    IN  \E ox \in {-1, 0, 1}, oz \in {-1, 0, 1} :
            IsWallAt(grid[m], width[m], height[m],
                     GridIndex100(100 * x + ox * playerRadius100 * Res),
                     GridIndex100(100 * z + oz * playerRadius100 * Res))

\* ProcessInput without the test of movementLocked.
ProcessInputNoLock(p, enterEdge, escEdge, dx, dz) ==
    LET g == game[p]
        paused == IF escEdge /\ windowPtr[p] THEN ~g.isPaused ELSE g.isPaused
        x1 == IF CheckCollision(g.Position.x + dx, g.Position.z)
              THEN g.Position.x ELSE g.Position.x + dx
        z1 == IF CheckCollision(x1, g.Position.z + dz)
              THEN g.Position.z ELSE g.Position.z + dz
    IN  /\ g.phase = "running" /\ g.at = "loop"
        /\ game' = [game EXCEPT ![p] =
              IF g.showingIntroDialog
              THEN [g EXCEPT !.showingIntroDialog = ~enterEdge]
              ELSE IF paused
              THEN [g EXCEPT !.isPaused = paused]
              ELSE [g EXCEPT !.isPaused = paused, !.Position = Pos(x1, z1)]]
        /\ UNCHANGED <<mazeVars, net>>

\* ProcessInput with the move tested and applied as a whole.
ProcessInputWholeMove(p, enterEdge, escEdge, dx, dz) ==
    LET g == game[p]
        paused == IF escEdge /\ windowPtr[p] THEN ~g.isPaused ELSE g.isPaused
        free == ~CheckCollision(g.Position.x + dx, g.Position.z + dz)
        x1 == IF free THEN g.Position.x + dx ELSE g.Position.x
        z1 == IF free THEN g.Position.z + dz ELSE g.Position.z
    IN  /\ g.phase = "running" /\ g.at = "loop"
        /\ game' = [game EXCEPT ![p] =
              IF g.showingIntroDialog
              THEN [g EXCEPT !.showingIntroDialog = ~enterEdge]
              ELSE IF paused
              THEN [g EXCEPT !.isPaused = paused]
              ELSE IF mode[p] = "CLIENT" /\ g.movementLocked
              THEN [g EXCEPT !.isPaused = paused]
              ELSE [g EXCEPT !.isPaused = paused, !.Position = Pos(x1, z1)]]
        /\ UNCHANGED <<mazeVars, net>>

\* Game::ProcessInput (Maze.cpp 928-1051) for one frame: enterEdge and
\* escEdge say whether ENTER / ESC went down in this frame, (dx, dz) is the
\* move the held keys ask for. While the intro dialog shows, only ENTER is
\* looked at; ESC toggles the pause when the window is known; a paused game
\* and a locked client do not move; otherwise the move is applied axis by
\* axis where nothing collides.
ProcessInput(p, enterEdge, escEdge, dx, dz) ==
    LET g == game[p]
        paused == IF escEdge /\ windowPtr[p] THEN ~g.isPaused ELSE g.isPaused
        x1 == IF CheckCollision(g.Position.x + dx, g.Position.z)
              THEN g.Position.x ELSE g.Position.x + dx
        z1 == IF CheckCollision(x1, g.Position.z + dz)
              THEN g.Position.z ELSE g.Position.z + dz
    IN  /\ g.phase = "running" /\ g.at = "loop"
        /\ game' = [game EXCEPT ![p] =
              IF g.showingIntroDialog
              THEN [g EXCEPT !.showingIntroDialog = ~enterEdge]
              ELSE IF paused
              THEN [g EXCEPT !.isPaused = paused]
              ELSE IF mode[p] = "CLIENT" /\ g.movementLocked
              THEN [g EXCEPT !.isPaused = paused]
              ELSE [g EXCEPT !.isPaused = paused, !.Position = Pos(x1, z1)]]
        /\ UNCHANGED <<mazeVars, net>>

\* Camera::ProcessMouseMovement (learnopengl/camera.h, not among the
\* sources): the horizontal offset is added to the yaw, counted in steps
\* from the direction the camera starts in. The vertical offset turns the
\* pitch in the same call and the same way; the yaw stands for both.
CameraMouse(g, xoffset) == [g EXCEPT !.Yaw = g.Yaw + xoffset]

\* The horizontal offsets a cursor event brings.
Offsets == {-1, 0, 1}

\* ProcessMouseMovement without the test of isPaused.
ProcessMouseMovementPaused(p, xoffset) ==
    LET g == game[p]
    IN  /\ g.phase = "running" /\ g.at = "loop"
        /\ g.Yaw + xoffset \in 0..MaxTurn
        /\ game' = [game EXCEPT ![p] = CameraMouse(g, xoffset)]
        /\ UNCHANGED <<mazeVars, net>>

\* Game::ProcessMouseMovement (Maze.cpp 1061-1069), called by
\* mouse_callback (main.cpp 125-142, main_client.cpp 158-177) for a cursor
\* event polled in the main loop: nothing happens while the game is
\* paused; otherwise the camera turns. The yaw stays within MaxTurn steps.
ProcessMouseMovement(p, xoffset) ==
    LET g == game[p]
    IN  /\ g.phase = "running" /\ g.at = "loop"
        /\ g.Yaw + xoffset \in 0..MaxTurn
        /\ game' = [game EXCEPT ![p] =
              IF g.isPaused THEN g ELSE CameraMouse(g, xoffset)]
        /\ UNCHANGED <<mazeVars, net>>

\* Maze.cpp 1333-1336: glm::distance(camera->Position, portalPosition) < 2.0f,
\* the camera half a unit above the portal.
Near(g) ==
    LET dx == g.Position.x - g.portalPosition.x
        dz == g.Position.z - g.portalPosition.z
    IN  dx * dx + HalfRes * HalfRes + dz * dz < (2 * Res) * (2 * Res)

\* Update without the test of connectedToPortal (Maze.cpp 1328-1330).
UpdateEveryTime(p) ==
    \E k \in 1..(IF net.wire = << >> THEN 1 ELSE Len(net.wire)) :
        LET g == game[p]
            conn1 == IF mode[p] = "HOST" /\ net.listening /\ net.conn = "backlog"
                     THEN "accepted" ELSE net.conn
            received == /\ mode[p] = "CLIENT" /\ g.movementLocked
                        /\ Connected /\ net.wire # << >>
            buffer == SubSeq(net.wire, 1, k)
            wire1 == IF received THEN SubSeq(net.wire, k + 1, Len(net.wire))
                     ELSE net.wire
            locked1 == IF received /\ ContainsUnlock(buffer)
                       THEN FALSE ELSE g.movementLocked
            trigger == Near(g)
            sends == trigger /\ mode[p] = "HOST" /\ conn1 = "accepted"
        IN  /\ g.phase = "running" /\ g.at = "loop"
            /\ net' = [net EXCEPT !.conn = conn1,
                                   !.wire = IF sends THEN wire1 \o UnlockMsg ELSE wire1]
            /\ game' = [game EXCEPT ![p] =
                  [g EXCEPT !.movementLocked = locked1,
                            !.isPaused = IF trigger THEN TRUE ELSE @,
                            !.connectedToPortal = IF trigger /\ ~sends THEN TRUE ELSE @,
                            !.at = IF sends THEN "sent" ELSE "loop"]]
            /\ UNCHANGED mazeVars

\* Game::Update (Maze.cpp 1079-1127) with CheckPortalProximity (Maze.cpp
\* 1327-1380), up to the return of sendData when UNLOCK is sent and to the
\* end otherwise: the host accepts a waiting connection; the locked client
\* makes one recv call, which hands over the first k of the bytes on their
\* way (TCP is a byte stream: any k from 1 to all of them), and unlocks
\* when those k bytes hold "UNLOCK"; then, unless the portal was reached
\* before, a player within the radius pauses, the host sends UNLOCK when it
\* has a client socket, and connectedToPortal is set.
Update(p) ==
    \E k \in 1..(IF net.wire = << >> THEN 1 ELSE Len(net.wire)) :
        LET g == game[p]
            conn1 == IF mode[p] = "HOST" /\ net.listening /\ net.conn = "backlog"
                     THEN "accepted" ELSE net.conn
            received == /\ mode[p] = "CLIENT" /\ g.movementLocked
                        /\ Connected /\ net.wire # << >>
            buffer == SubSeq(net.wire, 1, k)
            wire1 == IF received THEN SubSeq(net.wire, k + 1, Len(net.wire))
                     ELSE net.wire
            locked1 == IF received /\ ContainsUnlock(buffer)
                       THEN FALSE ELSE g.movementLocked
            trigger == ~g.connectedToPortal /\ Near(g)
            sends == trigger /\ mode[p] = "HOST" /\ conn1 = "accepted"
        IN  /\ g.phase = "running" /\ g.at = "loop"
            /\ net' = [net EXCEPT !.conn = conn1,
                                   !.wire = IF sends THEN wire1 \o UnlockMsg ELSE wire1]
            /\ game' = [game EXCEPT ![p] =
                  [g EXCEPT !.movementLocked = locked1,
                            !.isPaused = IF trigger THEN TRUE ELSE @,
                            !.connectedToPortal = IF trigger /\ ~sends THEN TRUE ELSE @,
                            !.at = IF sends THEN "sent" ELSE "loop"]]
            /\ UNCHANGED mazeVars

\* Maze.cpp 1358-1364: after sendData has returned the host sets
\* connectedToPortal, and Update returns.
UpdateEnd(p) ==
    /\ game[p].at = "sent"
    /\ game' = [game EXCEPT ![p].connectedToPortal = TRUE, ![p].at = "loop"]
    /\ UNCHANGED <<mazeVars, net>>

(* ====================== properties of the maze ========================= *)

Abs(n) == IF n < 0 THEN -n ELSE n

\* The cells of a w x h grid g that hold Path.
PathCells(g, w, h) ==
    {c \in (0..(w - 1)) \X (0..(h - 1)) : Holds(g, c[1], c[2], Path)}

\* 4-directional adjacency.
Adjacent(c, d) == Abs(c[1] - d[1]) + Abs(c[2] - d[2]) = 1

\* The cells of `cells` reachable from `seen` through adjacent cells;
\* `frontier` holds the cells of `seen` found last.
RECURSIVE Reachable(_, _, _)
Reachable(cells, seen, frontier) ==
    LET more == {d \in cells \ seen : \E c \in frontier : Adjacent(c, d)}
    IN  IF more = {} THEN seen ELSE Reachable(cells, seen \cup more, more)

\* The number of pairs of adjacent cells: each pair is counted at its left
\* or upper cell.
NumPassages(cells) ==
    Cardinality({c \in cells : <<c[1] + 1, c[2]>> \in cells})
        + Cardinality({c \in cells : <<c[1], c[2] + 1>> \in cells})

\* One connected component and no cycle: a tree.
IsPerfectMaze(g, w, h) ==
    LET cells == PathCells(g, w, h)
        first == CHOOSE c \in cells : TRUE
    IN  /\ cells # {}
        /\ Reachable(cells, {first}, {first}) = cells
        /\ NumPassages(cells) = Cardinality(cells) - 1

RoomCells(w, h) == {c \in (0..(w - 1)) \X (0..(h - 1)) : IsRoom(c[1], c[2])}

IsOdd(n) == n % 2 = 1

\* C1: whatever the order in which the candidate walls are taken, the grid
\* left by Generate is a perfect maze: its Path cells form one connected
\* component under 4-directional adjacency and contain no cycle.
C1_PerfectMaze ==
    pc = "ready" =>
        \A m \in Mazes : IsPerfectMaze(grid[m], width[m], height[m])

\* A 5 x 5 maze has been generated whose wall (1, 0) was left standing.
C1_Witness ==
    /\ pc = "ready"
    /\ width[1] = 5 /\ height[1] = 5
    /\ Holds(grid[1], 1, 0, Wall)

\* C2: once Generate(w, h) has been called the stored width and height are
\* always odd, and the values it stores are the requested ones, kept when
\* odd and incremented by exactly one when even.
C2_OddDimensions ==
    \A m \in Mazes :
        /\ pc # "new" => (IsOdd(width[m]) /\ IsOdd(height[m]))
        /\ requested # NoCall =>
            /\ pc = "entered"
            /\ width[m] = IF IsOdd(requested.w) THEN requested.w ELSE requested.w + 1
            /\ height[m] = IF IsOdd(requested.h) THEN requested.h ELSE requested.h + 1

\* Generate(4, 2) has stored width 5 and height 3.
C2_Witness ==
    /\ pc = "entered"
    /\ requested = [w |-> 4, h |-> 2]
    /\ width[1] = 5 /\ height[1] = 3

\* C3: after a successful Generate the grid has exactly height rows of
\* exactly width cells each, indexed grid[row][col], and every cell holds
\* Wall (0) or Path (1).
C3_GridShape ==
    pc = "ready" =>
        \A m \in Mazes :
            /\ DOMAIN grid[m] = 0..(height[m] - 1)
            /\ \A z \in DOMAIN grid[m] :
                  /\ DOMAIN grid[m][z] = 0..(width[m] - 1)
                  /\ \A x \in DOMAIN grid[m][z] : grid[m][z][x] \in {Wall, Path}

\* A grid that is not square has been generated.
C3_Witness ==
    /\ pc = "ready"
    /\ width[1] = 3 /\ height[1] = 5
    /\ Cardinality(DOMAIN grid[1]) = 5

\* C4: for every integer cell coordinate (col, row), the query
\* IsWall(col * cellSize, row * cellSize) on a generated grid returns true
\* exactly when (col, row) lies outside the grid or the cell is Wall; so the
\* queries at (-1, 0), (width, 0) and (0, height) return true.
C4_BoundaryBlocking ==
    (pc = "ready" /\ CalledIsWall
        /\ ret.worldX % (cellSize * Res) = 0 /\ ret.worldZ % (cellSize * Res) = 0) =>
        LET col == ret.worldX \div (cellSize * Res)
            row == ret.worldZ \div (cellSize * Res)
        IN  \A m \in Mazes :
                ret.val[m] = (\/ col < 0 \/ col >= width[m]
                              \/ row < 0 \/ row >= height[m]
                              \/ Holds(grid[m], col, row, Wall))

\* C5: IsWall maps each world coordinate to the index of the nearest cell
\* centre, for negative coordinates as for non-negative ones: the centre of
\* the index it computes is at most half a cell away from the coordinate.
C5_NearestCell ==
    CalledIsWall =>
        /\ Abs(ret.worldX - ret.gridX * cellSize * Res) <= cellSize * HalfRes
        /\ Abs(ret.worldZ - ret.gridZ * cellSize * Res) <= cellSize * HalfRes

C7_UnionCount ==
    \A m \in Mazes :
        /\ gen[m].live =>
              LET w == gen[m].horizontal
                  h == gen[m].vertical
                  rooms == Cardinality(RoomCells(w, h))
                  paths == Cardinality(PathCells(gen[m].maze, w, h))
              IN  /\ paths = rooms + gen[m].unions
                  /\ gen[m].walls = {} => gen[m].unions = rooms - 1
                  /\ (gen[m].walls = {} /\ w = 5 /\ h = 5) =>
                        (rooms = 9 /\ gen[m].unions = 8 /\ paths = 17)
        /\ pc = "ready" =>
              LET rooms == Cardinality(RoomCells(width[m], height[m]))
                  paths == Cardinality(PathCells(grid[m], width[m], height[m]))
              IN  /\ paths = rooms + (rooms - 1)
                  /\ (width[m] = 5 /\ height[m] = 5) => paths = 17

\* The last candidate of a 5 x 5 grid has been processed.
C7_Witness ==
    /\ pc = "generating"
    /\ gen[1].walls = {}
    /\ gen[1].horizontal = 5 /\ gen[1].vertical = 5
    /\ gen[1].unions = 8

\* C8: after Generate, endParams = (x, z) names a Path cell, and no Path
\* cell lies in a row greater than z, nor in row z at a column greater
\* than x.
C8_EndIsLastPath ==
    pc = "ready" =>
        \A m \in Mazes :
            /\ Holds(grid[m], endParams[m].x, endParams[m].y, Path)
            /\ \A c \in PathCells(grid[m], width[m], height[m]) :
                  ~(c[2] > endParams[m].y
                      \/ (c[2] = endParams[m].y /\ c[1] > endParams[m].x))

\* A 5 x 3 maze has been generated and its end cell is (4, 2).
C8_Witness ==
    /\ pc = "ready"
    /\ width[1] = 5 /\ height[1] = 3
    /\ endParams[1] = [x |-> 4, y |-> 2]

\* C9: on a generated grid FindStartPosition returns the world position
\* (col * cellSize, 0.5, row * cellSize) of a Path cell (col, row) such that
\* no Path cell lies in a lower row, nor in the same row at a lower column.
C9_StartIsFirstPath ==
    (pc = "ready" /\ CalledFindStart) =>
        \A m \in Mazes :
            \E c \in PathCells(grid[m], width[m], height[m]) :
                /\ ret.val[m] = [x |-> c[1] * cellSize * Res,
                                 y |-> HalfRes,
                                 z |-> c[2] * cellSize * Res]
                /\ \A d \in PathCells(grid[m], width[m], height[m]) :
                      ~(d[2] < c[2] \/ (d[2] = c[2] /\ d[1] < c[1]))

\* FindStartPosition has returned on a 3 x 5 maze.
C9_Witness ==
    /\ pc = "ready" /\ CalledFindStart
    /\ width[1] = 3 /\ height[1] = 5
    /\ ret.val[1].y = HalfRes

\* C10: in every generated grid every room cell (both coordinates even) is
\* Path, so cell (0, 0) is Path and the start position is that of (0, 0).
C10_RoomsArePath ==
    pc = "ready" =>
        \A m \in Mazes :
            /\ \A c \in RoomCells(width[m], height[m]) :
                  Holds(grid[m], c[1], c[2], Path)
            /\ Holds(grid[m], 0, 0, Path)
            /\ CalledFindStart => ret.val[m] = [x |-> 0, y |-> HalfRes, z |-> 0]

\* FindStartPosition has returned on a 3 x 3 maze in which the wall right of
\* cell (0, 0) was left standing.
C10_Witness ==
    /\ pc = "ready" /\ CalledFindStart
    /\ width[1] = 3 /\ height[1] = 3
    /\ Holds(grid[1], 1, 0, Wall)
    /\ ret.val[1].x = 0

\* The first cell of `cells` in the order of the forward scan, and the world
\* position of the centre of cell c.
FirstPathCell(cells) ==
    CHOOSE c \in cells :
        \A d \in cells \ {c} : d[2] > c[2] \/ (d[2] = c[2] /\ d[1] > c[1])
CellPosition(c) == [x |-> c[1] * cellSize * Res, y |-> HalfRes, z |-> c[2] * cellSize * Res]

\* C11: in every generated grid with more than one Path cell the start cell
\* (the first Path cell of the forward scan, whose position
\* FindStartPosition returns) and the end cell (endParams) are different
\* cells.
C11_StartEndDistinct ==
    pc = "ready" =>
        \A m \in Mazes :
            LET cells == PathCells(grid[m], width[m], height[m])
                end == <<endParams[m].x, endParams[m].y>>
            IN  Cardinality(cells) > 1 =>
                    /\ FirstPathCell(cells) # end
                    /\ CalledFindStart => ret.val[m] # CellPosition(end)

\* FindStartPosition has returned the position of (0, 0) on a 3 x 1 maze
\* whose end cell is (2, 0).
C11_Witness ==
    /\ pc = "ready" /\ CalledFindStart
    /\ width[1] = 3 /\ height[1] = 1
    /\ endParams[1] = [x |-> 2, y |-> 0]
    /\ ret.val[1] = CellPosition(<<0, 0>>)

\* C12: Generate(1, 1) does not fail; it yields a 1 x 1 grid whose only cell
\* (0, 0) is Path, without processing any candidate wall, and that cell is
\* both the start cell and the end cell.
C12_MinimumSize ==
    \A m \in Mazes :
        /\ (pc = "entered" /\ requested = [w |-> 1, h |-> 1]) =>
              /\ width[m] = 1 /\ height[m] = 1
              /\ ~MakeGeneratorThrows(width[m], height[m])
        /\ (width[m] = 1 /\ height[m] = 1) =>
              /\ pc \notin {"caught", "failed"}
              /\ pc = "generating" =>
                    /\ gen[m].walls = {} /\ gen[m].unions = 0
                    /\ GetMaze(gen[m]) = [z \in {0} |-> [x \in {0} |-> Path]]
              /\ pc = "ready" =>
                    /\ grid[m] = [z \in {0} |-> [x \in {0} |-> Path]]
                    /\ endParams[m] = [x |-> 0, y |-> 0]
                    /\ FirstPathCell(PathCells(grid[m], 1, 1)) = <<0, 0>>
                    /\ CalledFindStart => ret.val[m] = CellPosition(<<0, 0>>)

\* FindStartPosition has returned on the 1 x 1 maze.
C12_Witness ==
    /\ pc = "ready" /\ CalledFindStart
    /\ width[1] = 1 /\ height[1] = 1
    /\ Holds(grid[1], 0, 0, Path)
    /\ ret.val[1] = CellPosition(<<0, 0>>)

\* Grid g has h rows of w cells.
SameGrid(w, h, g) ==
    /\ DOMAIN g = 0..(h - 1)
    /\ \A z \in DOMAIN g : DOMAIN g[z] = 0..(w - 1)

\* C13: generation is all-or-nothing: when a call to Generate fails, width,
\* height, grid and endParams are exactly what they were before the call,
\* so that width and height never describe a grid that was not built.
C13_AllOrNothing ==
    [][(pc = "caught" /\ pc' = "failed") =>
          /\ [width |-> width', height |-> height', grid |-> grid',
              endParams |-> endParams'] = before
          /\ \A m \in Mazes : SameGrid(width'[m], height'[m], grid'[m])]_vars

\* C14: for every requested width <= 0 or height <= 0 (as passed, before
\* the rounding) Generate does not go on to build a grid, and what the
\* caller receives from the failed call differs from what a successful
\* call hands back.
C14_InvalidSizeReported ==
    [][/\ (pc = "entered" /\ (requested.w <= 0 \/ requested.h <= 0)) =>
              pc' = "caught"
       /\ (pc = "caught" /\ pc' = "failed") =>
              /\ grid' = before.grid
              /\ ret' # GenerateResult]_vars

\* The cells of g that hold Path, whatever width and height say.
GridPathCells(g) ==
    UNION {{<<x, z>> : x \in {x \in DOMAIN g[z] : g[z][x] = Path}} : z \in DOMAIN g}

\* C15: when the grid holds no Path cell, FindStartPosition signals an error
\* to its caller: it does not return the position of cell (0, 0).
C15_NoPathIsAnError ==
    \A m \in Mazes :
        (CalledFindStart /\ GridPathCells(grid[m]) = {}) =>
            ret.val[m] # CellPosition(<<0, 0>>)

\* The calls that only read the maze.
QueryOps == {"IsWall", "FindStartPosition", "Draw"}

\* Two returned calls are the same call with the same arguments.
SameCall(r1, r2) ==
    /\ r1.op = r2.op
    /\ r1.op = "IsWall" => (r1.worldX = r2.worldX /\ r1.worldZ = r2.worldZ)

\* C16: IsWall, FindStartPosition and Draw leave grid, width, height and
\* endParams unchanged, and a query repeated with the same arguments
\* returns the value it returned before.
C16_QueriesChangeNothing ==
    [][ret'.op \in QueryOps =>
          /\ UNCHANGED <<grid, width, height, endParams>>
          /\ (ret.op \in QueryOps /\ SameCall(ret, ret')) => ret'.val = ret.val]_vars

\* Draw has returned on a generated 3 x 3 maze: the end point is drawn at
\* (2, 2), which still is the end cell of the grid.
C16_Witness ==
    /\ pc = "ready" /\ CalledDraw
    /\ width[1] = 3 /\ height[1] = 3
    /\ ret.val[1][2][2] = "end"
    /\ Holds(grid[1], 2, 2, Path)
    /\ endParams[1] = [x |-> 2, y |-> 2]

\* Generate is between its entry and its return.
InGenerate(p) == p \in {"entered", "generating", "caught"}

\* The members f of object m all belong to one grid.
OneGrid(f, m) ==
    /\ SameGrid(f.width[m], f.height[m], f.grid[m])
    /\ Holds(f.grid[m], f.endParams[m].x, f.endParams[m].y, Path)

\* C17: at every step of a Generate call on an already generated maze, the
\* members are those of one grid, for the state itself and for what a
\* reader took between two steps: grid has height rows of width cells and
\* endParams is one of its Path cells.
C17_NoHalfUpdate ==
    \A m \in Mazes :
        /\ (InGenerate(pc) /\ grid[m] # EmptyGrid) => OneGrid(Fields, m)
        /\ (ret.op = "ReadFields" /\ InGenerate(ret.pc)
               /\ ret.val.grid[m] # EmptyGrid) => OneGrid(ret.val, m)

\* The client is locked while it is only constructed, and a locked client
\* that runs its main loop keeps its camera where it is.
LockedClientStays ==
    /\ game.client.phase = "constructed" => game.client.movementLocked
    /\ game'.client.phase = "constructed" => game'.client.movementLocked
    /\ (game.client.phase = "running" /\ game.client.movementLocked) =>
          game'.client.Position = game.client.Position

\* C18: a client cannot move before the host has reached the portal: in
\* CLIENT mode movementLocked is true from construction, every ProcessInput
\* call made while it is true leaves the camera position unchanged, and in
\* every state of host and client together an unlocked client implies that
\* connectedToPortal is set on the host.
C18_LockedUntilHostConnected ==
    [][/\ LockedClientStays
       /\ ~game.client.movementLocked => game.host.connectedToPortal
       /\ ~game'.client.movementLocked => game'.host.connectedToPortal]_vars

\* The host has come within the portal radius and has sent UNLOCK: it has
\* set connectedToPortal or is about to, sendData having returned.
HostHasSent(g) == g.host.connectedToPortal \/ g.host.at = "sent"

\* C18 as amended: movementLocked is true from construction, every
\* ProcessInput call made while it is true leaves the camera position
\* unchanged, and an unlocked client implies that the host has come within
\* the portal radius and sent UNLOCK (it sets connectedToPortal right after
\* the send, before its Update returns).
C18_LockedUntilHostSent ==
    [][/\ LockedClientStays
       /\ ~game.client.movementLocked => HostHasSent(game)
       /\ ~game'.client.movementLocked => HostHasSent(game')]_vars

\* The client, unlocked by the host that reached the portal, has left its
\* start position.
C18_Witness ==
    /\ game.host.connectedToPortal
    /\ game.client.phase = "running"
    /\ ~game.client.movementLocked
    /\ game.client.Position # Pos(0, 0)

\* C19: when the host reaches the portal the client is unlocked: whether
\* the client connected before or after the host came within the portal
\* radius, its movementLocked eventually becomes false, both executables
\* running their Update loop for ever.
C19_ClientEventuallyUnlocked ==
    (HostHasSent(game) \/ game.host.connectedToPortal) /\ Connected
        ~> ~game.client.movementLocked

\* Two parent arrays describe the same partition.
SamePartition(p1, p2) ==
    \A i \in DOMAIN p1, j \in DOMAIN p1 :
        (Root(p1, i) = Root(p1, j)) <=> (Root(p2, i) = Root(p2, j))

\* C20: in an iteration that processes candidate c between rooms A and B,
\* c becomes Path if and only if A and B were in different sets right
\* before the Union call; when they already shared a set, Union returns
\* false, the partition is unchanged and c stays Wall.
C20_CarveIffMerged ==
    [][(pc = "generating" /\ pc' = "generating") =>
          \A m \in Mazes :
              \A c \in gen[m].walls \ gen'[m].walls :
                  LET a == RoomIndex(gen[m].horizontal, RoomA(c)[1], RoomA(c)[2])
                      b == RoomIndex(gen[m].horizontal, RoomB(c)[1], RoomB(c)[2])
                      apart == Root(gen[m].parent, a) # Root(gen[m].parent, b)
                  IN  /\ Holds(gen[m].maze, c[1], c[2], Wall)
                      /\ Holds(gen'[m].maze, c[1], c[2], Path) <=> apart
                      /\ Union(gen[m].parent, a, b).merged <=> apart
                      /\ apart =>
                            /\ Root(gen'[m].parent, a) = Root(gen'[m].parent, b)
                            /\ gen'[m].unions = gen[m].unions + 1
                      /\ ~apart =>
                            /\ SamePartition(gen[m].parent, gen'[m].parent)
                            /\ Holds(gen'[m].maze, c[1], c[2], Wall)
                            /\ gen'[m].unions = gen[m].unions]_vars

\* All four candidates of a 3 x 3 grid have been processed: three were
\* carved and the one at (1, 0), whose rooms already shared a set, was not.
C20_Witness ==
    /\ pc = "generating"
    /\ gen[1].horizontal = 3 /\ gen[1].vertical = 3
    /\ gen[1].walls = {}
    /\ gen[1].unions = 3
    /\ Holds(gen[1].maze, 1, 0, Wall)

\* The connected component of cell c among `cells`.
Component(cells, c) == Reachable(cells, {c}, {c})

\* C21: at every step of generation two rooms have the same Find
\* representative if and only if they are connected through Path cells of
\* the grid carved so far, the carved grid contains no cycle (it has as
\* many passages as cells less components), and the path compression of a
\* Find call, on whatever room, leaves unchanged which rooms share a
\* representative.
C21_SetsAreComponents ==
    pc = "generating" =>
        \A m \in Mazes :
            LET g == gen[m]
                w == g.horizontal
                h == g.vertical
                cells == PathCells(g.maze, w, h)
                rooms == RoomCells(w, h)
                idx(c) == RoomIndex(w, c[1], c[2])
            IN  /\ \A a \in rooms :
                      LET connected == Component(cells, a)
                          rep == Find(g.parent, idx(a)).root
                      IN  \A b \in rooms :
                              (rep = Find(g.parent, idx(b)).root) <=> b \in connected
                /\ NumPassages(cells)
                      = Cardinality(cells)
                          - Cardinality({Component(cells, c) : c \in cells})
                /\ \A x \in DOMAIN g.parent :
                      /\ SamePartition(g.parent, Find(g.parent, x).parent)
                      /\ Find(g.parent, x).root = Root(g.parent, x)

\* In a 3 x 3 grid room 3 hangs under room 2, which hangs under room 0: a
\* Find(3) has a path to compress.
C21_Witness ==
    /\ pc = "generating"
    /\ gen[1].horizontal = 3 /\ gen[1].vertical = 3
    /\ gen[1].parent[3] = 2 /\ gen[1].parent[2] = 0
    /\ Holds(gen[1].maze, 2, 1, Path)

\* The cells of a w x h grid with one even and one odd coordinate, and
\* those with two odd coordinates.
MixedCells(w, h) ==
    {c \in (0..(w - 1)) \X (0..(h - 1)) : (c[1] % 2 = 0) # (c[2] % 2 = 0)}
OddCells(w, h) ==
    {c \in (0..(w - 1)) \X (0..(h - 1)) : c[1] % 2 = 1 /\ c[2] % 2 = 1}

\* Cell c lies directly between rooms a and b: they are its two neighbours
\* on one row or on one column.
Between(c, a, b) ==
    \/ a[2] = c[2] /\ b[2] = c[2] /\ a[1] = c[1] - 1 /\ b[1] = c[1] + 1
    \/ a[1] = c[1] /\ b[1] = c[1] /\ a[2] = c[2] - 1 /\ b[2] = c[2] + 1

\* C22: the candidate list the generator starts from holds exactly the
\* cells of the grid with one even and one odd coordinate (the model keeps
\* the list as the set of candidates not yet processed, each of them in it
\* once); each candidate lies directly between exactly two distinct rooms,
\* which are the two rooms it is united for; a cell with two odd
\* coordinates is never a candidate and is Wall during generation and in
\* the grid Generate leaves.
C22_CandidateWalls ==
    [][/\ (pc = "entered" /\ pc' = "generating") =>
              \A m \in Mazes :
                  LET rooms == RoomCells(width[m], height[m])
                  IN  /\ gen'[m].walls = MixedCells(width[m], height[m])
                      /\ \A c \in gen'[m].walls :
                            /\ {r \in rooms : Adjacent(r, c)} = {RoomA(c), RoomB(c)}
                            /\ RoomA(c) # RoomB(c)
                            /\ Between(c, RoomA(c), RoomB(c))
       /\ pc' = "generating" =>
              \A m \in Mazes :
                  LET g == gen'[m]
                  IN  /\ g.walls \subseteq MixedCells(g.horizontal, g.vertical)
                      /\ \A c \in OddCells(g.horizontal, g.vertical) :
                            c \notin g.walls /\ Holds(g.maze, c[1], c[2], Wall)
       /\ pc' = "ready" =>
              \A m \in Mazes :
                  \A c \in OddCells(width'[m], height'[m]) :
                      Holds(grid'[m], c[1], c[2], Wall)]_vars

\* The generator of a 5 x 5 grid has just been constructed: 12 candidates,
\* none processed, and the cell (1, 1) among the 4 that are no candidates.
C22_Witness ==
    /\ pc = "generating"
    /\ gen[1].horizontal = 5 /\ gen[1].vertical = 5
    /\ Cardinality(gen[1].walls) = 12
    /\ <<1, 1>> \notin gen[1].walls
    /\ Cardinality(OddCells(5, 5)) = 4

\* C23: for every valid width and height (odd once rounded, and positive)
\* and every order of the candidates, Generate terminates: every iteration
\* takes exactly one candidate off the list and none comes back, the run
\* leaves the loop only when the list is exhausted, rooms - 1 unions have
\* then succeeded, and a call that has been entered returns.
C23_GenerateTerminates ==
    /\ [][/\ (pc = "generating" /\ pc' = "generating") =>
                \A m \in Mazes :
                    \E c \in gen[m].walls : gen'[m].walls = gen[m].walls \ {c}
          /\ (pc = "generating" /\ pc' # "generating") =>
                /\ pc' = "ready"
                /\ \A m \in Mazes :
                      /\ gen[m].walls = {}
                      /\ gen[m].unions
                            = Cardinality(RoomCells(width[m], height[m])) - 1]_vars
    /\ (pc = "entered" /\ \A m \in Mazes : width[m] > 0 /\ height[m] > 0)
           ~> (pc = "ready")

\* Generate(4, 2) has returned: the 7 candidates of the 5 x 3 grid were
\* processed and 5 of them carved.
C23_Witness ==
    /\ pc = "ready"
    /\ width[1] = 5 /\ height[1] = 3
    /\ gen[1] = NoGen
    /\ Cardinality(PathCells(grid[1], 5, 3)) = 11

(* ====================== properties of the game ========================= *)

\* The indices of the cells whose centre is nearest to the coordinate v
\* (in ticks): one index, or two when v lies half way between two centres.
NearestIndices(v) ==
    {(v + cellSize * HalfRes) \div (cellSize * Res),
     -((cellSize * HalfRes - v) \div (cellSize * Res))}

\* The position lies in a Path cell inside the grid: a cell nearest to it
\* has 0 <= col < width, 0 <= row < height and holds Path.
InPathCell(pos) ==
    LET m == currentMaze
    IN  \E col \in NearestIndices(pos.x), row \in NearestIndices(pos.z) :
            /\ 0 <= col /\ col < width[m]
            /\ 0 <= row /\ row < height[m]
            /\ Holds(grid[m], col, row, Path)

\* C24: walls block movement: from the start position on, after any
\* sequence of ProcessInput steps the position of the player lies in a Path
\* cell inside the grid.
C24_PlayerInPathCell ==
    \A p \in Procs : game[p].phase = "running" => InPathCell(game[p].Position)

\* The call ProcessInput makes for executable p reaches the movement code
\* (Maze.cpp 1002-1051): the dialog is gone, the game is not paused once
\* ESC has been looked at, and the client is not locked.
ReachesMovement(p, escEdge) ==
    LET g == game[p]
    IN  /\ ~g.showingIntroDialog
        /\ ~(IF escEdge /\ windowPtr[p] THEN ~g.isPaused ELSE g.isPaused)
        /\ ~(mode[p] = "CLIENT" /\ g.movementLocked)

\* C25: movement is resolved per axis: in one ProcessInput step the X
\* component is applied iff the position with only X changed does not
\* collide, and the Z component is then applied iff the position with the
\* updated X and the new Z does not collide; a blocked X never prevents a
\* free Z, and a blocked Z never undoes an applied X.
C25_PerAxisMovement ==
    [][\A p \in Procs, enterEdge \in BOOLEAN, escEdge \in BOOLEAN,
          dx \in Moves, dz \in Moves :
            (ProcessInput(p, enterEdge, escEdge, dx, dz)
                /\ ReachesMovement(p, escEdge)) =>
                LET old == game[p].Position
                    new == game'[p].Position
                IN  /\ new.x = IF CheckCollision(old.x + dx, old.z)
                               THEN old.x ELSE old.x + dx
                    /\ new.z = IF CheckCollision(new.x, old.z + dz)
                               THEN old.z ELSE old.z + dz]_vars

\* A player has walked to a place where it slides along a wall: a move
\* along X collides there while a move along Z is free.
C25_Witness ==
    \E p \in Procs, dx \in Moves, dz \in Moves :
        LET g == game[p]
        IN  /\ g.phase = "running"
            /\ ReachesMovement(p, FALSE)
            /\ g.Position # Pos(0, 0)
            /\ InPathCell(g.Position)
            /\ CheckCollision(g.Position.x + dx, g.Position.z)
            /\ ~CheckCollision(g.Position.x, g.Position.z + dz)
            /\ dz # 0

\* The step is a call of ProcessInput or of ProcessMouseMovement in
\* executable p: the keys and the cursor are its input.
InputStep(p) ==
    \/ \E enterEdge \in BOOLEAN, escEdge \in BOOLEAN, dx \in Moves, dz \in Moves :
           ProcessInput(p, enterEdge, escEdge, dx, dz)
    \/ \E xoffset \in Offsets : ProcessMouseMovement(p, xoffset)

\* C26: while the intro dialog is shown all input other than ENTER is
\* blocked: no key or mouse input changes the camera position, the camera
\* orientation or isPaused; only a rising edge of ENTER dismisses the
\* dialog, and once dismissed it is never shown again.
C26_DialogBlocksInput ==
    [][\A p \in Procs :
          /\ (game[p].showingIntroDialog /\ InputStep(p)) =>
                /\ game'[p].Position = game[p].Position
                /\ game'[p].Yaw = game[p].Yaw
                /\ game'[p].isPaused = game[p].isPaused
          /\ (game[p].showingIntroDialog /\ ~game'[p].showingIntroDialog) =>
                \E escEdge \in BOOLEAN, dx \in Moves, dz \in Moves :
                    ProcessInput(p, TRUE, escEdge, dx, dz)
          /\ ~game[p].showingIntroDialog => ~game'[p].showingIntroDialog]_vars

PortalPaused(p) ==
    /\ game[p].phase = "running"
    /\ game[p].connectedToPortal
    /\ game[p].isPaused
    /\ ~game[p].showingIntroDialog

\* C28: after the game has paused itself because the player reached the
\* portal, the next press of ESC resumes play, in the host executable as
\* well as in the client executable: whatever else is held, the
\* ProcessInput call that sees the rising edge of ESC ends with isPaused
\* false.
C28_EscResumesAfterPortal ==
    \A p \in Procs, enterEdge \in BOOLEAN, dx \in Moves, dz \in Moves :
        (PortalPaused(p) /\ game[p].at = "loop") =>
            ENABLED (/\ ProcessInput(p, enterEdge, TRUE, dx, dz)
                     /\ ~game'[p].isPaused)

\* Executable p has handled its arrival at the portal: connectedToPortal
\* is set, or the host is between its send and the assignment.
Triggered(g, p) == g[p].connectedToPortal \/ g[p].at = "sent"

\* C29: reaching the portal is handled at most once per game:
\* connectedToPortal only goes from false to true; the host sends UNLOCK
\* only in a step that handles its arrival for the first time, so at most
\* once in a run; and an Update call made after that neither pauses the
\* game again nor sends anything, wherever the player stands.
C29_PortalHandledOnce ==
    [][\A p \in Procs :
          /\ game[p].connectedToPortal => game'[p].connectedToPortal
          /\ Triggered(game, p) => Triggered(game', p)
          /\ Len(net'.wire) > Len(net.wire) =>
                ~Triggered(game, "host") /\ game'.host.at = "sent"
          /\ (Triggered(game, p) /\ ~game[p].isPaused /\ Update(p)) =>
                ~game'[p].isPaused]_vars

\* The host has sent UNLOCK and set connectedToPortal; the client, which
\* reached the portal too and resumed play, stands within the portal
\* radius when its next Update runs.
C29_Witness ==
    /\ game.host.connectedToPortal /\ Near(game.host)
    /\ ~game.client.movementLocked
    /\ game.client.connectedToPortal
    /\ ~game.client.isPaused
    /\ Near(game.client)

\* C30: once the host has sent its UNLOCK message and the client has
\* received all of its bytes, the client is unlocked, however TCP splits
\* the bytes across the receive calls of the client: the step in which
\* the last byte on its way is received leaves movementLocked false.
C30_UnlockedWhenAllReceived ==
    [][(net.wire # << >> /\ net'.wire = << >>) =>
          ~game'.client.movementLocked]_vars

(* ------------------------------ Init ----------------------------------- *)

\* Maze(Mesh*, Mesh*): grid is empty; width, height and endParams are not
\* initialised.
InitMazes(objs) ==
    /\ pc = "new"
    /\ width \in [objs -> Indeterminate]
    /\ height \in [objs -> Indeterminate]
    /\ endParams \in [objs -> [x : Indeterminate, y : Indeterminate]]
    /\ grid = [m \in objs |-> EmptyGrid]
    /\ gen = [m \in objs |-> NoGen]
    /\ requested = NoCall
    /\ ret = NoCall
    /\ before = NoCall

Init == InitMazes({1}) /\ InitGame

\* Two Maze objects, for comparing two runs of Generate.
InitTwin == InitMazes({1, 2}) /\ InitGame

\* The candidates still on the shuffled list of every generator.
Remaining == {c \in (0..MaxW) \X (0..MaxH) : \A m \in Mazes : c \in gen[m].walls}

\* Game::Init (Maze.cpp 478-489) calls Generate once on a new Maze; the
\* queries follow, each made when the value of the call before was taken.
Next ==
    \/ pc = "new" /\ \E w \in ReqW, h \in ReqH : GenerateEnter(w, h)
    \/ GenerateConstruct
    \/ pc = "generating" /\ \E c \in Remaining : GenerateStep(c)
    \/ GenerateReturn
    \/ GenerateCatch
    \/ Idle /\ \E worldX \in QueryX, worldZ \in QueryZ : IsWall(worldX, worldZ)
    \/ Idle /\ FindStartPosition
    \/ Idle /\ Draw
    \/ QueryAgain
    \/ TakeResult

Spec == Init /\ [][Next]_vars

\* The steps of Generate alone.
NextGenerate ==
    \/ pc = "new" /\ \E w \in ReqW, h \in ReqH : GenerateEnter(w, h)
    \/ GenerateConstruct
    \/ pc = "generating" /\ \E c \in Remaining : GenerateStep(c)
    \/ GenerateReturn
    \/ GenerateCatch

SpecTwin == InitTwin /\ [][NextGenerate]_vars

\* One call of Generate on one Maze.
SpecGenerate == Init /\ [][NextGenerate]_vars

\* Generate called again and again on the same Maze with requests up to
\* MaxRegen, while a reader takes the public members between its steps.
RegenReq == (-MaxNeg)..MaxRegen

NextRegen ==
    \/ Queryable /\ Idle /\ \E w \in RegenReq, h \in RegenReq : GenerateEnter(w, h)
    \/ pc = "new" /\ \E w \in RegenReq, h \in RegenReq : GenerateEnter(w, h)
    \/ Idle /\ GenerateConstruct
    \/ pc = "generating" /\ Idle /\ \E c \in Remaining : GenerateStep(c)
    \/ Idle /\ GenerateReturn
    \/ Idle /\ GenerateCatch
    \/ Idle /\ ReadFields
    \/ Idle /\ FindStartPosition
    \/ TakeResult

SpecRegen == Init /\ [][NextRegen]_vars

\* One call of Generate for a width up to MaxW and a height up to MaxRegen.
NextTerminate ==
    \/ pc = "new" /\ \E w \in ReqW, h \in RegenReq : GenerateEnter(w, h)
    \/ GenerateConstruct
    \/ pc = "generating" /\ \E c \in Remaining : GenerateStep(c)
    \/ GenerateReturn
    \/ GenerateCatch

\* Generate is synchronous and single-threaded: once called it takes its
\* next step, whichever step that is.
SpecGenerateFair == Init /\ [][NextTerminate]_vars /\ WF_vars(NextTerminate)

\* Generate with the disjoint sets kept as a forest: Union links, and Find
\* calls compress, in any order.
NextForest ==
    \/ pc = "new" /\ \E w \in ReqW, h \in RegenReq : GenerateEnter(w, h)
    \/ GenerateConstruct
    \/ pc = "generating" /\ \E c \in Remaining : GenerateStepLinked(c)
    \/ pc = "generating" /\ \E x \in 0..(NumRooms(MaxW + 1, MaxRegen + 1) - 1) : GenerateFind(x)
    \/ GenerateReturn
    \/ GenerateCatch

SpecForest == Init /\ [][NextForest]_vars

\* The host and the client executables: each runs Game::Init, which
\* generates the maze, and then its main loop (main.cpp 68-92,
\* main_client.cpp 99-126), ProcessInput and Update frame after frame.
NextGame ==
    \/ pc = "new" /\ GenerateEnter(GameMazeSize, GameMazeSize)
    \/ GenerateConstruct
    \/ pc = "generating" /\ \E c \in Remaining : GenerateStep(c)
    \/ GenerateReturn
    \/ \E p \in Procs : GameInit(p)
    \/ \E p \in Procs, enterEdge \in BOOLEAN, escEdge \in BOOLEAN,
          dx \in Moves, dz \in Moves :
            ProcessInput(p, enterEdge, escEdge, dx, dz)
    \/ \E p \in Procs : Update(p)
    \/ \E p \in Procs : UpdateEnd(p)

SpecGame == Init /\ [][NextGame]_vars

\* The two executables with the cursor events their windows receive.
NextInput ==
    \/ NextGame
    \/ \E p \in Procs, xoffset \in Offsets : ProcessMouseMovement(p, xoffset)

SpecInput == Init /\ [][NextInput]_vars

\* The host executable played on its own, no client being started: Init,
\* then the main loop with the cursor events its window receives.
NextHost ==
    \/ pc = "new" /\ GenerateEnter(GameMazeSize, GameMazeSize)
    \/ GenerateConstruct
    \/ pc = "generating" /\ \E c \in Remaining : GenerateStep(c)
    \/ GenerateReturn
    \/ GameInit("host")
    \/ \E enterEdge \in BOOLEAN, escEdge \in BOOLEAN, dx \in Moves, dz \in Moves :
            ProcessInput("host", enterEdge, escEdge, dx, dz)
    \/ \E xoffset \in Offsets : ProcessMouseMovement("host", xoffset)
    \/ Update("host")

SpecHost == Init /\ [][NextHost]_vars

\* Both main loops run for ever: each executable gets to run Update, and
\* to finish it, again and again.
SpecGameFair ==
    /\ SpecGame
    /\ \A p \in Procs : WF_vars(Update(p)) /\ WF_vars(UpdateEnd(p))

====
